---- MODULE Spec2Model ----
(***************************************************************************)
(* Interrupted-time-series pipeline of analysis/its.py.                    *)
(*                                                                         *)
(* A table (pandas DataFrame) is a record                                  *)
(*   [rows  : sequence of row records, in the frame's row order,           *)
(*    cols  : the set of column names the frame has,                       *)
(*    dtype : the dtype of each group_N column,                            *)
(*    categories : the category order of each group_N column]              *)
(* A month-start date is the integer 12 * year + (month - 1).              *)
(* A text cell is a string, the missing value is the string NaN; the dtype *)
(* of its column says whether the string "1" stands for the number 1       *)
(* ("numeric"), the text "1" ("object") or, as "True", a bool ("bool").    *)
(* A numeric cell, once coerced, is {} (missing) or {n}.                   *)
(***************************************************************************)
EXTENDS Integers, Sequences, FiniteSets, TLC

VARIABLES
    measure_table,  \* the loaded observation table (get_measure_tables)
    req,            \* the arguments of the call in progress
    pc,             \* position of the call in progress
    subset,         \* get_model: subset
    numeric,        \* get_model: numeric
    cutdates,       \* get_its_variables: <<cutdate1, cutdate2>>
    df,             \* get_model / get_its_variables / get_formula: df
    fourier,        \* get_model: fourier (get_formula: fourier_terms)
    formula,        \* get_model: formula
    model,          \* get_model: model returned by get_regression
    fit_calls,      \* number of times the Poisson fitter has been invoked
    forest,         \* pcnt_change: the table it returns
    cf_df,          \* plot_cf: cf_df
    cf2_df,         \* plot_cf: cf2_df
    shown,          \* plot_cf: the counterfactual rows drawn on the axes
    error           \* the exception that ended the call and where it was raised

vars == <<measure_table, req, pc, subset, numeric, cutdates, df, fourier,
          formula, model, fit_calls, forest, cf_df, cf2_df, shown, error>>

plots == <<cf_df, cf2_df, shown>>

-----------------------------------------------------------------------------
(* Bounds of the model                                                     *)

MaxRows == 2
MaxItsRows == 4
MaxLevelRows == 4

-----------------------------------------------------------------------------
(* Values                                                                  *)

NaN == "NaN"
None == "None"
NoError == "NoError"

Date(y, m) == 12 * y + (m - 1)
Year(d) == d \div 12
Month(d) == (d % 12) + 1

STEP_TIME_1 == Date(2020, 3)
STEP_TIME_2 == Date(2021, 3)
IncompleteMonth == Date(2022, 11)

SeqsUpTo(S, n) == UNION {[1..k -> S] : k \in 0..n}

Min(S) == CHOOSE x \in S : \A y \in S : x <= y
Max2(a, b) == IF a >= b THEN a ELSE b

Range(s) == {s[i] : i \in DOMAIN s}

\* pandas unique(): the distinct values in order of first appearance
RECURSIVE Unique(_)
Unique(s) ==
    IF s = <<>> THEN <<>>
    ELSE LET init == Unique(SubSeq(s, 1, Len(s) - 1))
             last == s[Len(s)]
         IN IF last \in Range(init) THEN init ELSE Append(init, last)

Column(t, c) == [i \in DOMAIN t.rows |-> t.rows[i][c]]

GroupCols == {"group_0", "group_1"}
NumericCols == {"numerator", "denominator", "value"}
TextCols == {"group_0", "category_0", "group_1", "category_1"}
BaseCols == {"date", "name"} \cup NumericCols \cup TextCols

NoCategories == [g \in GroupCols |-> <<>>]
NoTable == [rows |-> <<>>, cols |-> {}, dtype |-> [g \in GroupCols |-> "object"],
            categories |-> NoCategories]
NoFourier == [given |-> FALSE, columns |-> <<>>, rows |-> <<>>]
NoModel == [fitted |-> FALSE, converged |-> FALSE, formula |-> <<>>, nobs |-> 0,
            cov_type |-> "None", params |-> <<>>, estimate |-> <<>>]

-----------------------------------------------------------------------------
(* get_its_variables (its.py 132-158)                                      *)

Extend(r, extra) ==
    [k \in DOMAIN r \cup DOMAIN extra |->
        IF k \in DOMAIN extra THEN extra[k] ELSE r[k]]

\* line 138: min(pandas.to_datetime(df.date).dt.year)
MinYear(rows) == Min({Year(rows[i].date) : i \in DOMAIN rows})

\* the 12 months of a year forgotten
TimeOfNoTwelve(d, min_year) == (Year(d) - min_year) + Month(d)

\* lines 140-142
TimeOf(d, min_year) == 12 * (Year(d) - min_year) + Month(d)

\* df[df["date"] == cutdate]
RowsDated(rows, cutdate) == SelectSeq(rows, LAMBDA r : r.date = cutdate)

\* the cutoff counted within its own year
CutMonthInYear(rows, min_year, cutdate) ==
    Month(RowsDated(rows, cutdate)[1].date) - 1

\* lines 143-144: df[df["date"] == cutdate].iloc[0].time - 1
CutMonth(rows, min_year, cutdate) ==
    TimeOf(RowsDated(rows, cutdate)[1].date, min_year) - 1

\* line 139
Rate(value) == {1000 * v : v \in value}

\* the step switched on one month early
StepFromCutMonth(time, cutmonth) == IF time >= cutmonth THEN 1 ELSE 0
\* the ramp not clipped at zero
SlopeUnclipped(time, cutmonth) == time - cutmonth

\* the ramp started a month after the step
SlopeOneLate(time, cutmonth) == Max2(time - cutmonth - 1, 0)

\* lines 146-149
Step(time, cutmonth) == IF time > cutmonth THEN 1 ELSE 0
Slope(time, cutmonth) == Max2(time - cutmonth, 0)

\* the April dummy written with the March offset
April20AsMarch(time, cutmonth1) == IF time = cutmonth1 + 1 THEN 1 ELSE 0

\* the March dummy put on the month before the cutoff
Mar20MonthBefore(time, cutmonth1) == IF time = cutmonth1 THEN 1 ELSE 0

\* lines 150-155
Mar20(time, cutmonth1) == IF time = cutmonth1 + 1 THEN 1 ELSE 0
April20(time, cutmonth1) == IF time = cutmonth1 + 2 THEN 1 ELSE 0

ItsColumns == {"rate", "time", "step", "slope", "step2", "slope2",
               "mar20", "april20"}

ItsRow(r, min_year, cutmonth1, cutmonth2) ==
    LET time == TimeOf(r.date, min_year)
    IN Extend(r, [rate    |-> Rate(r.value),
                  time    |-> time,
                  step    |-> Step(time, cutmonth1),
                  slope   |-> Slope(time, cutmonth1),
                  step2   |-> Step(time, cutmonth2),
                  slope2  |-> Slope(time, cutmonth2),
                  mar20   |-> Mar20(time, cutmonth1),
                  april20 |-> April20(time, cutmonth1),
                  index   |-> time])

\* a cutoff date without a row defaulted to month index 0 instead of raising
get_its_variables_defaulting(dataframe, cutdate1, cutdate2) ==
    LET rows == dataframe.rows
    IN IF rows = <<>>
       THEN [err |-> "ValueError", table |-> NoTable]
       ELSE LET min_year == MinYear(rows)
                cutmonth1 == IF RowsDated(rows, cutdate1) = <<>> THEN 0
                             ELSE CutMonth(rows, min_year, cutdate1)
                cutmonth2 == IF RowsDated(rows, cutdate2) = <<>> THEN 0
                             ELSE CutMonth(rows, min_year, cutdate2)
            IN [err |-> NoError,
                table |-> [rows  |-> [i \in DOMAIN rows |->
                                        ItsRow(rows[i], min_year, cutmonth1, cutmonth2)],
                           cols  |-> dataframe.cols \cup ItsColumns,
                           dtype |-> dataframe.dtype,
                           categories |-> dataframe.categories]]

\* The call's outcome: the exception it raises, or the table it returns.
get_its_variables(dataframe, cutdate1, cutdate2) ==
    LET rows == dataframe.rows
    IN IF rows = <<>>
       THEN [err |-> "ValueError", table |-> NoTable]
       ELSE IF RowsDated(rows, cutdate1) = <<>> \/ RowsDated(rows, cutdate2) = <<>>
       THEN [err |-> "IndexError", table |-> NoTable]
       ELSE LET min_year == MinYear(rows)
                cutmonth1 == CutMonth(rows, min_year, cutdate1)
                cutmonth2 == CutMonth(rows, min_year, cutdate2)
            IN [err |-> NoError,
                table |-> [rows  |-> [i \in DOMAIN rows |->
                                        ItsRow(rows[i], min_year, cutmonth1, cutmonth2)],
                           cols  |-> dataframe.cols \cup ItsColumns,
                           dtype |-> dataframe.dtype,
                           categories |-> dataframe.categories]]


-----------------------------------------------------------------------------
(* subset_table, match_paths (its.py 547-566)                              *)

\* fnmatch: a name and a pattern are sequences of characters; "*" matches
\* any run of characters, "?" any one character, any other character itself.
RECURSIVE fnmatch(_, _)
fnmatch(name, pattern) ==
    IF pattern = <<>> THEN name = <<>>
    ELSE IF Head(pattern) = "*"
    THEN fnmatch(name, Tail(pattern))
         \/ (name # <<>> /\ fnmatch(Tail(name), pattern))
    ELSE /\ name # <<>>
         /\ (Head(pattern) = "?" \/ Head(pattern) = Head(name))
         /\ fnmatch(Tail(name), Tail(pattern))

\* line 566: fnmatch.filter(files, pattern)
match_paths(files, pattern) == SelectSeq(files, LAMBDA f : fnmatch(f, pattern))

\* the check of lines 553-556 left out: no match gives a table without rows
subset_table_unchecked(table, measures_pattern) ==
    LET measures_list == match_paths(Column(table, "name"), measures_pattern)
    IN [err |-> NoError,
        table |-> [table EXCEPT !.rows =
            SelectSeq(table.rows, LAMBDA r : r.name \in Range(measures_list))]]

subset_table(table, measures_pattern) ==
    LET measures_list == match_paths(Column(table, "name"), measures_pattern)
    IN IF Len(measures_list) = 0
       THEN [err |-> "ValueError", table |-> NoTable]
       ELSE [err |-> NoError,
             table |-> [table EXCEPT !.rows =
                 SelectSeq(table.rows, LAMBDA r : r.name \in Range(measures_list))]]

-----------------------------------------------------------------------------
(* coerce_numeric (its.py 528-544)                                         *)

Numeral == [c \in {"0", "1", "2", "3"} |->
               CASE c = "0" -> 0 [] c = "1" -> 1 [] c = "2" -> 2 [] c = "3" -> 3]

\* what cannot be read counted as zero
to_numeric_zero(cell) == IF cell \in DOMAIN Numeral THEN {Numeral[cell]} ELSE {0}

\* pandas.to_numeric(errors="coerce") of one raw cell
to_numeric(cell) == IF cell \in DOMAIN Numeral THEN {Numeral[cell]} ELSE {}

coerce_numeric(table) ==
    [table EXCEPT !.rows = [i \in DOMAIN table.rows |->
        [table.rows[i] EXCEPT !.numerator = to_numeric(@),
                              !.denominator = to_numeric(@),
                              !.value = to_numeric(@)]]]

-----------------------------------------------------------------------------
(* is_bool_as_int, series_to_bool, flatten (its.py 93-129)                 *)

\* strings that int() reads, numbers that are integers
IntLike == {"0", "1", "2"}

is_bool_as_int(cells, dtype) ==
    IF dtype = "numeric"
    THEN \A i \in DOMAIN cells : cells[i] # NaN => cells[i] \in {"0", "1"}
    ELSE IF dtype = "object"
    THEN \* astype(int) raises ValueError on a missing or non-integer cell
         /\ \A i \in DOMAIN cells : cells[i] \in IntLike
         /\ \A i \in DOMAIN cells : cells[i] \in {"0", "1"}
    ELSE FALSE

\* The outcome of series_to_bool: the new cells and dtype, or the exception.
series_to_bool(cells, dtype) ==
    IF is_bool_as_int(cells, dtype)
    THEN IF \E i \in DOMAIN cells : cells[i] = NaN
         THEN [err |-> "ValueError", cells |-> cells, dtype |-> dtype]
         ELSE [err |-> NoError,
               cells |-> [i \in DOMAIN cells |->
                            IF cells[i] = "1" THEN "True" ELSE "False"],
               dtype |-> "bool"]
    ELSE [err |-> NoError, cells |-> cells, dtype |-> dtype]

IsMissing(c, v) ==
    IF c \in NumericCols THEN v = {}
    ELSE IF c \in TextCols THEN v = NaN
    ELSE FALSE

\* line 125: df.dropna(axis=1, how="all")
DropEmptyColumns(table) ==
    [table EXCEPT !.cols =
        {c \in @ : \E i \in DOMAIN table.rows : ~IsMissing(c, table.rows[i][c])}]

\* the rows filtered on any flag column, whatever category_0 holds
flatten_every_flag(table) ==
    LET d == DropEmptyColumns(table)
    IN IF "group_0" \notin d.cols
       THEN [err |-> "AttributeError", table |-> NoTable]
       ELSE LET b == series_to_bool(Column(d, "group_0"), d.dtype["group_0"])
            IN IF b.err # NoError
               THEN [err |-> b.err, table |-> NoTable]
               ELSE IF "category_0" \notin d.cols
               THEN [err |-> "KeyError", table |-> NoTable]
               ELSE LET rows == [i \in DOMAIN d.rows |->
                                   [d.rows[i] EXCEPT !.group_0 = b.cells[i]]]
                        one == Cardinality(Range(Column(d, "category_0"))) = 1
                    IN [err |-> NoError,
                        table |-> [d EXCEPT
                            !.dtype["group_0"] = b.dtype,
                            !.rows = IF b.dtype = "bool"
                                     THEN SelectSeq(rows, LAMBDA r : r.group_0 = "True")
                                     ELSE rows]]

flatten(table) ==
    LET d == DropEmptyColumns(table)
    IN IF "group_0" \notin d.cols
       THEN [err |-> "AttributeError", table |-> NoTable]
       ELSE LET b == series_to_bool(Column(d, "group_0"), d.dtype["group_0"])
            IN IF b.err # NoError
               THEN [err |-> b.err, table |-> NoTable]
               ELSE IF "category_0" \notin d.cols
               THEN [err |-> "KeyError", table |-> NoTable]
               ELSE LET rows == [i \in DOMAIN d.rows |->
                                   [d.rows[i] EXCEPT !.group_0 = b.cells[i]]]
                        one == Cardinality(Range(Column(d, "category_0"))) = 1
                    IN [err |-> NoError,
                        table |-> [d EXCEPT
                            !.dtype["group_0"] = b.dtype,
                            !.rows = IF one /\ b.dtype = "bool"
                                     THEN SelectSeq(rows, LAMBDA r : r.group_0 = "True")
                                     ELSE rows]]


-----------------------------------------------------------------------------
(* get_fourier (its.py 26-34)                                              *)

\* 1000 * sin(2 pi k / 12) and 1000 * cos(2 pi k / 12), rounded, k = 0..11
Sin12 == <<0, 500, 866, 1000, 866, 500, 0, -500, -866, -1000, -866, -500>>
Cos12 == <<1000, 866, 500, 0, -500, -866, -1000, -866, -500, 0, 500, 866>>

\* Fourier(12, order=2).in_sample(df.index): the n-th row of the index
\* (n = 0, 1, ...) gets the harmonics of n / 12; columns s1, c1 are kept.
get_fourier(table) ==
    [given   |-> TRUE,
     columns |-> <<"s1", "c1">>,
     rows    |-> [i \in DOMAIN table.rows |->
                    [index |-> table.rows[i].index,
                     s1    |-> Sin12[((i - 1) % 12) + 1],
                     c1    |-> Cos12[((i - 1) % 12) + 1]]]]

-----------------------------------------------------------------------------
(* get_formula (its.py 37-60)                                              *)

\* A formula is the sequence of the terms written right of "~"; the term
\* a*b is [var |-> a, by |-> b], a plain term a is [var |-> a, by |-> None].
Term(v) == [var |-> v, by |-> None]
Star(v, g) == [var |-> v, by |-> g]

\* lines 45-47
BaseFormula == <<Term("time"), Term("step"), Term("slope"), Term("mar20"),
                 Term("april20"), Term("step2"), Term("slope2")>>

\* the trend interacted with the group as well
InteractionTermsWithTime(interaction_group) ==
    <<Star("time", interaction_group),
      Star("step", interaction_group), Star("slope", interaction_group),
      Star("step2", interaction_group), Star("slope2", interaction_group)>>

\* line 57
InteractionTerms(interaction_group) ==
    <<Star("step", interaction_group), Star("slope", interaction_group),
      Star("step2", interaction_group), Star("slope2", interaction_group)>>

\* line 59: "+".join(fourier_terms)
FourierTerms(fourier_terms) ==
    [i \in DOMAIN fourier_terms.columns |-> Term(fourier_terms.columns[i])]

\* reference == level, as Python compares a str (or None) with a cell
SameLevel(reference, cell, dtype) ==
    reference # None /\ dtype = "object" /\ cell = reference

\* the removal guarded by a membership test, so that it never raises
RemoveNeverRaises(levels, reference, dtype) == FALSE

\* line 52: list.remove raises ValueError when no element equals reference
RemoveRaises(levels, reference, dtype) ==
    ~\E i \in DOMAIN levels : SameLevel(reference, levels[i], dtype)

\* list.remove(x): drops the first element equal to x
RECURSIVE ListRemove(_, _)
ListRemove(levels, x) ==
    IF levels = <<>> THEN <<>>
    ELSE IF Head(levels) = x THEN Tail(levels)
    ELSE <<Head(levels)>> \o ListRemove(Tail(levels), x)

\* the reference put last instead of first
ReorderLevelsLast(levels, reference) == ListRemove(levels, reference) \o <<reference>>

\* lines 52-53: levels.remove(reference); levels = [reference] + levels
ReorderLevels(levels, reference) == <<reference>> \o ListRemove(levels, reference)

\* The outcome of get_formula: the exception, or the formula and the table
\* with the grouping column made categorical in the new order.
get_formula(table, fourier_terms, interaction_group, reference) ==
    LET tail == IF fourier_terms.given THEN FourierTerms(fourier_terms) ELSE <<>>
    IN IF interaction_group = None
       THEN [err |-> NoError, formula |-> BaseFormula \o tail, table |-> table]
       ELSE IF interaction_group \notin table.cols
       THEN [err |-> "KeyError", formula |-> <<>>, table |-> table]
       ELSE LET levels == Unique(Column(table, interaction_group))
                dtype == table.dtype[interaction_group]
            IN IF RemoveRaises(levels, reference, dtype)
               THEN \* line 52 raises; line 50 has made the column categorical
                    \* (in pandas' default order, which nothing reads any more)
                    [err |-> "ValueError", formula |-> <<>>,
                     table |-> [table EXCEPT !.dtype[interaction_group] = "category"]]
               ELSE [err |-> NoError,
                     formula |-> BaseFormula \o InteractionTerms(interaction_group)
                                 \o tail,
                     table |-> [table EXCEPT
                         !.dtype[interaction_group] = "category",
                         !.categories[interaction_group] =
                             ReorderLevels(levels, reference)]]



-----------------------------------------------------------------------------
(* get_model (its.py 161-202), get_regression (63-90), pcnt_change (295-329)*)

NoException == [type |-> NoError, at |-> "nowhere"]
NoForest == [made |-> FALSE, category |-> NaN, rows |-> <<>>]
NoShown == [drawn |-> FALSE, cf |-> <<>>, cf2 |-> <<>>]

\* no handler anywhere: an exception ends the call, whoever made it
Raise(e) == pc' = "raised" /\ error' = [type |-> e, at |-> pc]

\* line 183: interaction_group.replace('group', 'category')
CategoryOf(interaction_group) ==
    IF interaction_group = "group_0" THEN "category_0" ELSE "category_1"

\* an f-string prints a missing cell as nan
Str(cell) == IF cell = NaN THEN "nan" ELSE cell

\* lines 187-189: the label of one row; x[interaction_group] == "1" holds
\* for the text "1" only, never for the number 1
RelabelCell(row, interaction_group, dtype) ==
    IF dtype = "object" /\ row[interaction_group] = "1"
    THEN "Recored " \o Str(row[CategoryOf(interaction_group)])
    ELSE "No recorded " \o Str(row[CategoryOf(interaction_group)])

\* lines 186-191
Relabelled(table, interaction_group) ==
    [table EXCEPT
        !.dtype[interaction_group] = "object",
        !.rows = [i \in DOMAIN table.rows |->
            [table.rows[i] EXCEPT ![interaction_group] =
                RelabelCell(table.rows[i], interaction_group,
                            table.dtype[interaction_group])]]]

\* line 174: subset[~subset[interaction_group].isnull()]
DropNull(table, interaction_group) ==
    [table EXCEPT !.rows = SelectSeq(@, LAMBDA r : r[interaction_group] # NaN)]

\* line 177: numeric[numeric["date"] != "2022-11-01"]
DropIncompleteMonth(table) ==
    [table EXCEPT !.rows = SelectSeq(@, LAMBDA r : r.date # IncompleteMonth)]

\* line 200: pandas.concat([df, fourier], axis=1); the two frames have the
\* same index, row for row
Concat(table, four) ==
    [table EXCEPT
        !.cols = @ \cup Range(four.columns),
        !.rows = [i \in DOMAIN table.rows |->
            Extend(table.rows[i], [s1 |-> four.rows[i].s1, c1 |-> four.rows[i].c1])]]

\* The frames get_model writes to in place (lines 126, 186, 139-156, 50-54)
\* derive from the loaded table through measure_table[mask] (line 558),
\* subset[mask] and table.copy() (lines 174-177, 536) and dataframe.copy()
\* (line 137), each of which gives a frame with data of its own.
StageOrder == <<"subset_table", "coerce_numeric", "flatten", "relabel",
                "get_its_variables", "get_fourier", "get_formula">>
StageAt(p) == CHOOSE i \in DOMAIN StageOrder : StageOrder[i] = p

\* no step taking a copy: every frame a view of the loaded table
CopyingNowhere == {}

\* the steps that end with a frame that shares no data with their input
Copying == {"subset_table", "coerce_numeric", "get_its_variables"}

\* the frame written at stage p still shares its data with the loaded
\* table: no copy has been taken up to that stage (at a stage that copies,
\* the copy comes first)
SharesLoaded(p) == \A q \in Copying : StageAt(q) > StageAt(p)

\* The loaded table after a write into frame at stage p: a write into a
\* frame sharing its data shows in the loaded table (held as the loaded
\* table taking the frame's columns and column types), any other leaves it
\* as it is.
Written(loaded, frame, p) ==
    IF SharesLoaded(p)
    THEN [loaded EXCEPT !.cols = frame.cols, !.dtype = frame.dtype,
                        !.categories = frame.categories]
    ELSE loaded

\* line 172
SubsetTable ==
    /\ pc = "subset_table"
    /\ LET r == subset_table(measure_table, req.pattern)
       IN IF r.err # NoError
          THEN Raise(r.err) /\ UNCHANGED subset
          ELSE subset' = r.table /\ pc' = "coerce_numeric" /\ UNCHANGED error
    /\ UNCHANGED plots
    /\ UNCHANGED <<measure_table, req, numeric, cutdates, df, fourier, formula,
                   model, fit_calls, forest>>

\* lines 173-177
CoerceNumeric ==
    /\ pc = "coerce_numeric"
    /\ LET g == req.interaction_group
       IN IF g # None /\ g \notin subset.cols
          THEN Raise("KeyError") /\ UNCHANGED <<subset, numeric>>
          ELSE /\ subset' = IF g # None THEN DropNull(subset, g) ELSE subset
               /\ numeric' = DropIncompleteMonth(coerce_numeric(subset'))
               /\ pc' = "flatten"
               /\ UNCHANGED error
    /\ UNCHANGED plots
    /\ UNCHANGED <<measure_table, req, cutdates, df, fourier, formula, model,
                   fit_calls, forest>>

\* lines 178-179
Flatten ==
    /\ pc = "flatten"
    /\ IF req.convert_flat
       THEN LET r == flatten(numeric)
            IN IF r.err # NoError
               THEN Raise(r.err) /\ UNCHANGED numeric
               ELSE numeric' = r.table /\ pc' = "relabel" /\ UNCHANGED error
       ELSE pc' = "relabel" /\ UNCHANGED <<numeric, error>>
    /\ UNCHANGED plots
    /\ measure_table' = Written(measure_table, numeric', pc)
    /\ UNCHANGED <<req, subset, cutdates, df, fourier, formula,
                   model, fit_calls, forest>>

\* What assigning the result of apply(axis=1) on a frame without rows does
\* depends on the pandas version: it raises ValueError or leaves the frame.
EmptyAssignOutcomes == {NoError, "ValueError"}

\* lines 180-191
Relabel ==
    /\ pc = "relabel"
    /\ LET g == req.interaction_group
       IN IF g = None
          THEN pc' = "get_its_variables" /\ UNCHANGED <<numeric, error>>
          ELSE IF g \notin numeric.cols
          THEN Raise("KeyError") /\ UNCHANGED numeric
          ELSE IF ~is_bool_as_int(Column(numeric, g), numeric.dtype[g])
          THEN pc' = "get_its_variables" /\ UNCHANGED <<numeric, error>>
          ELSE IF numeric.rows = <<>>
          THEN \E o \in EmptyAssignOutcomes :
                  IF o = NoError
                  THEN pc' = "get_its_variables" /\ UNCHANGED <<numeric, error>>
                  ELSE Raise(o) /\ UNCHANGED numeric
          ELSE IF CategoryOf(g) \notin numeric.cols
          THEN Raise("KeyError") /\ UNCHANGED numeric
          ELSE /\ numeric' = Relabelled(numeric, g)
               /\ pc' = "get_its_variables"
               /\ UNCHANGED error
    /\ UNCHANGED plots
    /\ measure_table' = Written(measure_table, numeric', pc)
    /\ UNCHANGED <<req, subset, cutdates, df, fourier, formula,
                   model, fit_calls, forest>>

\* line 192, or a call of get_its_variables(numeric, cutdate1, cutdate2) itself
GetItsVariables ==
    /\ pc = "get_its_variables"
    /\ cutdates' = IF req.entry = "get_its_variables" THEN cutdates
                   ELSE <<STEP_TIME_1, STEP_TIME_2>>
    /\ LET r == get_its_variables(numeric, cutdates'[1], cutdates'[2])
       IN IF r.err # NoError
          THEN Raise(r.err) /\ UNCHANGED df
          ELSE /\ df' = r.table
               /\ pc' = IF req.entry = "get_its_variables" THEN "done"
                        ELSE "get_fourier"
               /\ UNCHANGED error
    /\ UNCHANGED plots
    /\ measure_table' = Written(measure_table, df', pc)
    /\ UNCHANGED <<req, subset, numeric, fourier, formula, model,
                   fit_calls, forest>>

\* line 193
GetFourier ==
    /\ pc = "get_fourier"
    /\ fourier' = get_fourier(df)
    /\ pc' = "get_formula"
    /\ UNCHANGED plots
    /\ UNCHANGED <<measure_table, req, subset, numeric, cutdates, df, formula,
                   model, fit_calls, forest, error>>

\* lines 194-200, or a call of get_formula(df, fourier, ...) itself
GetFormula ==
    /\ pc = "get_formula"
    /\ LET r == get_formula(df, fourier, req.interaction_group, req.reference)
       IN IF r.err # NoError
          THEN Raise(r.err) /\ df' = r.table /\ UNCHANGED formula
          ELSE /\ formula' = r.formula
               /\ UNCHANGED error
               /\ IF req.entry = "get_formula"
                  THEN df' = r.table /\ pc' = "done"
                  ELSE df' = Concat(r.table, fourier) /\ pc' = "get_regression"
    /\ UNCHANGED plots
    /\ measure_table' = Written(measure_table, df', pc)
    /\ UNCHANGED <<req, subset, numeric, cutdates, fourier, model,
                   fit_calls, forest>>

\* What the Poisson fit (statsmodels) does is not decided by this code: it
\* converges, stops after maxiter=200 unconverged, or raises.
FitOutcomes == {"converged", "not_converged", "raised"}

\* A coefficient name is the sequence of its characters, a run of
\* characters other than . : [ ] and T written as one piece.
Spell(label) ==
    CASE label = "True" -> <<"T", "rue">>
      [] label = "1.5" -> <<"1", ".", "5">>
      [] label = "(1,5]" -> <<"(1,5", "]">>
      [] OTHER -> <<label>>

RECURSIVE Flat(_)
Flat(ss) == IF ss = <<>> THEN <<>> ELSE Head(ss) \o Flat(Tail(ss))

\* the design-matrix column of a level of the grouping column: group[T.level]
LevelName(g, level) == <<g, "[", "T", ".">> \o Spell(level) \o <<"]">>
\* the column of a term crossed with a level: term:group[T.level]
CrossName(v, g, level) == <<v, ":">> \o LevelName(g, level)

\* The columns the formula interface (lines 70-85) builds from the formula
\* and the data: the intercept, one per level of the grouping column but
\* the first (its reference), one per term, and one per crossed term and
\* level.
ParamNames(formula_, table, g) ==
    LET levels == IF g = None \/ table.categories[g] = <<>> THEN <<>>
                  ELSE Tail(table.categories[g])
        vars_ == Unique([i \in DOMAIN formula_ |-> formula_[i].var])
        crossed == {formula_[i].var : i \in {j \in DOMAIN formula_ : formula_[j].by # None}}
    IN <<<<"Intercept">>>>
       \o [i \in DOMAIN levels |-> LevelName(g, levels[i])]
       \o Flat([i \in DOMAIN vars_ |->
                  <<<<vars_[i]>>>> \o
                  (IF vars_[i] \in crossed
                   THEN [j \in DOMAIN levels |-> CrossName(vars_[i], g, levels[j])]
                   ELSE <<>>)])

\* A coefficient or a bound of its interval, on the log scale, is k * ln 2
\* and held as the integer k; estimates has one [coef, lci, uci] per column.
\* lines 71-86: the result of .fit(..., maxiter=200); mle_retvals["converged"]
\* is what the optimizer reports
Fit(outcome, formula_, interaction_group, table, estimate) ==
    [fitted |-> TRUE, converged |-> (outcome = "converged"),
     formula |-> formula_, nobs |-> Len(table.rows),
     cov_type |-> IF interaction_group = None THEN "HAC" ELSE "hac-groupsum",
     params |-> ParamNames(formula_, table, interaction_group),
     estimate |-> estimate]

\* the result returned whatever the optimizer reported
get_regression_unchecked(outcome, formula_, interaction_group, table, estimate) ==
    IF outcome = "raised"
    THEN [err |-> "FitError", model |-> NoModel]
    ELSE [err |-> NoError,
          model |-> Fit(outcome, formula_, interaction_group, table, estimate)]

\* The outcome of get_regression: the exception, or the model it returns.
get_regression(outcome, formula_, interaction_group, table, estimate) ==
    IF outcome = "raised"
    THEN [err |-> "FitError", model |-> NoModel]
    ELSE LET model_errors == Fit(outcome, formula_, interaction_group, table, estimate)
         IN IF ~model_errors.converged
            THEN [err |-> "ConvergenceWarning", model |-> NoModel]
            ELSE [err |-> NoError, model |-> model_errors]

\* What the fit estimates is not decided by this code either: every column
\* gets lci <= coef <= uci.
Estimate(c, l, u) == [coef |-> c, lci |-> l, uci |-> u]
Estimates == {Estimate(1, 0, 2), Estimate(-1, -2, 1)}

\* an unconverged fit tried again instead of raised
GetRegressionRetrying ==
    /\ pc = "get_regression"
    /\ fit_calls < 3
    /\ fit_calls' = fit_calls + 1
    /\ \E o \in FitOutcomes, e \in Estimates :
          LET r == get_regression(o, formula, req.interaction_group, df, e)
          IN IF r.err = "ConvergenceWarning"
             THEN UNCHANGED <<pc, error, model>>
             ELSE IF r.err # NoError
             THEN Raise(r.err) /\ UNCHANGED model
             ELSE /\ model' = r.model
                  /\ pc' = IF req.entry \in {"pcnt_change", "plot_cf"}
                           THEN req.entry ELSE "done"
                  /\ UNCHANGED error
    /\ UNCHANGED plots
    /\ UNCHANGED <<measure_table, req, subset, numeric, cutdates, df, fourier,
                   formula, forest>>

\* line 201
GetRegression ==
    /\ pc = "get_regression"
    /\ fit_calls' = fit_calls + 1
    /\ \E o \in FitOutcomes, e \in Estimates :
          LET r == get_regression(o, formula, req.interaction_group, df, e)
          IN IF r.err # NoError
             THEN Raise(r.err) /\ UNCHANGED model
             ELSE /\ model' = r.model
                  /\ pc' = IF req.entry \in {"pcnt_change", "plot_cf"}
                           THEN req.entry ELSE "done"
                  /\ UNCHANGED error
    /\ UNCHANGED plots
    /\ UNCHANGED <<measure_table, req, subset, numeric, cutdates, df, fourier,
                   formula, forest>>

\* 100 * (numpy.exp(x) - 1) for x = k * ln 2
Pcnt(k) == IF k >= 0 THEN 100 * (2^k - 1) ELSE -(100 - 100 \div 2^(-k))

\* get_ci_df (lines 277-292): one row per coefficient; error is set on line
\* 281, before line 282 transforms the whole frame; pcnt holds the three
\* figures printed in the string
get_ci_df(model_) ==
    LET e == model_.estimate
    IN [i \in DOMAIN model_.params |->
          [name  |-> model_.params[i],
           coef  |-> Pcnt(e.coef),
           lci   |-> Pcnt(e.lci),
           uci   |-> Pcnt(e.uci),
           error |-> Pcnt(e.coef - e.lci),
           pcnt  |-> <<Pcnt(e.coef), Pcnt(e.lci), Pcnt(e.uci)>>]]

\* str.contains("T."): the pattern is a regular expression, a T followed by
\* any one character
ContainsTDot(key) == \E i \in 1..(Len(key) - 1) : key[i] = "T"

\* str.split(sep)
RECURSIVE Split(_, _)
Split(key, sep) ==
    IF \A i \in DOMAIN key : key[i] # sep THEN <<key>>
    ELSE LET at == Min({i \in DOMAIN key : key[i] = sep})
         IN <<SubSeq(key, 1, at - 1)>> \o Split(SubSeq(key, at + 1, Len(key)), sep)

\* str.rstrip(ch): every trailing ch removed
RECURSIVE RStrip(_, _)
RStrip(key, ch) ==
    IF key # <<>> /\ key[Len(key)] = ch
    THEN RStrip(SubSeq(key, 1, Len(key) - 1), ch)
    ELSE key

\* the rows of the cross terms only
KeepsCrossTermsOnly(key) == ContainsTDot(key) /\ \E i \in DOMAIN key : key[i] = ":"

\* line 314
Keeps(key) == ContainsTDot(key)

\* lines 318-324: the index tuple of one key
IndexOf(key) ==
    LET parts == Split(key, ".")
        x == parts[1]
        y == parts[2]
    IN [change |-> IF \E i \in DOMAIN x : x[i] = ":"
                   THEN Split(x, ":")[1] ELSE <<"baseline">>,
        group  |-> RStrip(y, "]")]

\* The outcome of lines 309-329 of pcnt_change: the exception, or the table.
pcnt_change(model_, its_data, interaction_group) ==
    LET category_name == IF interaction_group = None THEN "category_0"
                         ELSE CategoryOf(interaction_group)
        kept == SelectSeq(get_ci_df(model_), LAMBDA r : Keeps(r.name))
    IN IF category_name \notin its_data.cols
       THEN [err |-> "KeyError", forest |-> NoForest]
       ELSE IF \E i \in DOMAIN kept : Len(Split(kept[i].name, ".")) # 2
       THEN \* line 318: x, y = key.split(".") cannot unpack
            [err |-> "ValueError", forest |-> NoForest]
       ELSE [err |-> NoError,
             forest |-> [made |-> TRUE,
                         category |-> Unique(Column(its_data, category_name))[1],
                         rows |-> [i \in DOMAIN kept |->
                                     Extend(kept[i], IndexOf(kept[i].name))]]]

\* lines 306-329, after get_model has returned
PcntChange ==
    /\ pc = "pcnt_change"
    /\ LET r == pcnt_change(model, df, req.interaction_group)
       IN IF r.err # NoError
          THEN Raise(r.err) /\ UNCHANGED forest
          ELSE /\ forest' = r.forest
               /\ pc' = "done"
               /\ UNCHANGED error
    /\ UNCHANGED plots
    /\ UNCHANGED <<measure_table, req, subset, numeric, cutdates, df, fourier,
                   formula, model, fit_calls>>


-----------------------------------------------------------------------------
(* plot_cf (its.py 423-513)                                                *)

\* line 424: df.set_index("date"): the date column becomes the index
SetIndexDate(table) ==
    [table EXCEPT
        !.cols = @ \ {"date"},
        !.rows = [i \in DOMAIN table.rows |->
                    [table.rows[i] EXCEPT !.index = table.rows[i].date]]]

\* the April dummy left in the no-intervention table
NoInterventionColumnsLessApril == {"slope", "step", "mar20", "slope2", "step2"}

\* lines 430-435
NoInterventionColumns == {"slope", "step", "mar20", "april20", "slope2", "step2"}
\* lines 443-444
NoRecoveryColumns == {"slope2", "step2"}

\* cf_df = df.copy(); cf_df[c] = 0.0 for each c of columns
Zeroed(table, columns) ==
    [table EXCEPT
        !.cols = @ \cup columns,
        !.rows = [i \in DOMAIN table.rows |->
                    [k \in DOMAIN table.rows[i] \cup columns |->
                        IF k \in columns THEN 0 ELSE table.rows[i][k]]]]

Ascending(s) == \A i, j \in DOMAIN s : i < j => s[i] <= s[j]
Descending(s) == \A i, j \in DOMAIN s : i < j => s[i] >= s[j]

\* frame[cut:] on a frame indexed by date, cut a Timestamp: the rows from
\* the left bound of cut to the end. In an index in ascending order the
\* bound is the first row dated cut or later; in one in descending order the
\* first row dated cut or earlier; in an unordered one the first row dated
\* cut, KeyError when no row is or when the rows dated cut are not adjacent.
DateSlice(table, cut) ==
    LET dates == Column(table, "index")
        at == {i \in DOMAIN dates : dates[i] = cut}
    IN IF Ascending(dates)
       THEN [err |-> NoError, rows |-> SelectSeq(table.rows, LAMBDA r : r.index >= cut)]
       ELSE IF Descending(dates)
       THEN [err |-> NoError, rows |-> SelectSeq(table.rows, LAMBDA r : r.index <= cut)]
       ELSE IF at # {} /\ \A i, j \in at : \A k \in i..j : k \in at
       THEN [err |-> NoError,
             rows |-> SubSeq(table.rows, Min(at), Len(table.rows))]
       ELSE [err |-> "KeyError", rows |-> <<>>]

\* ax is a name plot_cf reads and this file never binds: it is bound by
\* whoever loads the module, or reading it raises NameError (line 451)
AxBound == BOOLEAN

\* plot_cf(model, df)
PlotCf ==
    /\ pc = "plot_cf"
    /\ LET indexed == SetIndexDate(df)
           cf == Zeroed(indexed, NoInterventionColumns)
           cf2 == Zeroed(indexed, NoRecoveryColumns)
           from1 == DateSlice(cf, STEP_TIME_1)
           from2 == DateSlice(cf2, STEP_TIME_2)
       IN /\ cf_df' = cf
          /\ cf2_df' = cf2
          /\ \E bound \in AxBound :
                IF ~bound
                THEN Raise("NameError") /\ UNCHANGED shown
                ELSE IF from1.err # NoError \/ from2.err # NoError
                THEN /\ Raise("KeyError")
                     /\ shown' = IF from1.err # NoError THEN shown
                                 ELSE [drawn |-> TRUE, cf |-> from1.rows, cf2 |-> <<>>]
                ELSE /\ shown' = [drawn |-> TRUE, cf |-> from1.rows, cf2 |-> from2.rows]
                     /\ pc' = "done"
                     /\ UNCHANGED error
    /\ UNCHANGED <<measure_table, req, subset, numeric, cutdates, df, fourier,
                   formula, model, fit_calls, forest>>

-----------------------------------------------------------------------------
(* The loaded tables and the requests made against them                    *)

\* a row of the measures file; numerator, denominator and value are raw cells
RawRow(d, n, g0, c0, g1, c1) ==
    [date |-> d, name |-> n, numerator |-> "2", denominator |-> "3",
     value |-> "1", group_0 |-> g0, category_0 |-> c0,
     group_1 |-> g1, category_1 |-> c1]

Table(rows, dtype0, dtype1) ==
    [rows |-> rows, cols |-> BaseCols,
     dtype |-> [g \in GroupCols |-> IF g = "group_0" THEN dtype0 ELSE dtype1],
     categories |-> NoCategories]

SpecDates == {STEP_TIME_1, STEP_TIME_2, IncompleteMonth}
Names == {<<"a", "x">>, <<"a", "y">>}
Patterns == {<<"a", "x">>, <<"a", "*">>, <<"?", "z">>}

\* series broken down by a text-valued group
PlainRows == {RawRow(d, n, g, "x", NaN, NaN) :
                 d \in SpecDates, n \in Names, g \in {NaN, "A", "B"}}
\* series broken down by a 0/1 flag
FlagRows == {RawRow(d, <<"a", "x">>, f, c, NaN, NaN) :
                 d \in SpecDates, f \in {NaN, "0", "1"}, c \in {"x", "y"}}
\* series broken down by a flag and a text-valued group
TwoDimRows == {RawRow(d, <<"a", "x">>, f, "x", g, "y") :
                 d \in SpecDates, f \in {"0", "1"}, g \in {"A", "B"}}

\* series with redacted or empty numerator, denominator or value cells
Redacted == "[REDACTED]"
RedactedRows ==
    {[RawRow(d, <<"a", "x">>, "A", "x", NaN, NaN) EXCEPT
         !.numerator = n, !.denominator = dn, !.value = v] :
        d \in {STEP_TIME_1, STEP_TIME_2}, n \in {"2", Redacted},
        dn \in {"3", Redacted}, v \in {"0", "1", Redacted, NaN}}

Request(e, p, g, r, f) ==
    [entry |-> e, pattern |-> p, interaction_group |-> g, reference |-> r,
     convert_flat |-> f]

Entries == {"get_model", "pcnt_change"}

PlainCase ==
    /\ \E rows \in SeqsUpTo(PlainRows, MaxRows) :
          measure_table = Table(rows, "object", "numeric")
    /\ \E e \in Entries, p \in Patterns, f \in BOOLEAN,
          gr \in {<<None, None>>, <<"group_0", None>>, <<"group_0", "A">>} :
          req = Request(e, p, gr[1], gr[2], f)

FlagCase ==
    /\ \E rows \in SeqsUpTo(FlagRows, MaxRows), dt \in {"object", "numeric"} :
          measure_table = Table(rows, dt, "numeric")
    /\ \E e \in Entries, f \in BOOLEAN,
          gr \in {<<None, None>>, <<"group_0", "No recorded x">>,
                  <<"group_0", "Recorded x">>} :
          req = Request(e, <<"a", "*">>, gr[1], gr[2], f)

TwoDimCase ==
    /\ \E rows \in SeqsUpTo(TwoDimRows, MaxRows) :
          measure_table = Table(rows, "object", "object")
    /\ \E e \in Entries, f \in BOOLEAN,
          gr \in {<<"group_0", "No recorded x">>, <<"group_1", "A">>,
                  <<"group_1", "B">>} :
          req = Request(e, <<"a", "x">>, gr[1], gr[2], f)

RedactedCase ==
    /\ \E rows \in SeqsUpTo(RedactedRows, MaxRows) :
          measure_table = Table(rows, "object", "numeric")
    /\ \E e \in Entries : req = Request(e, <<"a", "x">>, None, None, FALSE)

Init ==
    /\ PlainCase \/ FlagCase \/ TwoDimCase \/ RedactedCase
    /\ pc = "subset_table"
    /\ subset = NoTable
    /\ numeric = NoTable
    /\ cutdates = <<STEP_TIME_1, STEP_TIME_2>>
    /\ df = NoTable
    /\ fourier = NoFourier
    /\ formula = <<>>
    /\ model = NoModel
    /\ fit_calls = 0
    /\ forest = NoForest
    /\ cf_df = NoTable /\ cf2_df = NoTable /\ shown = NoShown
    /\ error = NoException

Next ==
    \/ SubsetTable
    \/ CoerceNumeric
    \/ Flatten
    \/ Relabel
    \/ GetItsVariables
    \/ GetFourier
    \/ GetFormula
    \/ GetRegression
    \/ PcntChange

Spec == Init /\ [][Next]_vars

-----------------------------------------------------------------------------
(* get_its_variables called on its own, with any two cutoff dates          *)

ItsDates == {Date(2019, 12), Date(2020, 1), Date(2020, 2), Date(2020, 3),
             Date(2020, 4)}

\* a row whose numeric cells have been coerced
NumericRow(d, v, g0) ==
    [date |-> d, name |-> <<"a", "x">>, numerator |-> {2}, denominator |-> {3},
     value |-> v, group_0 |-> g0, category_0 |-> "x",
     group_1 |-> NaN, category_1 |-> NaN]

ItsRows == {NumericRow(d, {1}, "A") : d \in ItsDates}

ItsInit ==
    /\ measure_table = NoTable
    /\ req = Request("get_its_variables", <<>>, None, None, FALSE)
    /\ pc = "get_its_variables"
    /\ subset = NoTable
    /\ \E rows \in SeqsUpTo(ItsRows, MaxItsRows) :
          numeric = Table(rows, "object", "numeric")
    /\ \E c1 \in ItsDates, c2 \in ItsDates : cutdates = <<c1, c2>>
    /\ df = NoTable
    /\ fourier = NoFourier
    /\ formula = <<>>
    /\ model = NoModel
    /\ fit_calls = 0
    /\ forest = NoForest
    /\ cf_df = NoTable /\ cf2_df = NoTable /\ shown = NoShown
    /\ error = NoException

ItsNext == GetItsVariables

ItsSpec == ItsInit /\ [][ItsNext]_vars

-----------------------------------------------------------------------------
(* get_formula called on its own                                           *)

Levels == {"A", "B", "C"}
LevelRows == {NumericRow(STEP_TIME_1, {1}, g) : g \in Levels}
References == Levels \cup {"D", None}
GivenFourier == [given |-> TRUE, columns |-> <<"s1", "c1">>, rows |-> <<>>]

FormulaInit ==
    /\ measure_table = NoTable
    /\ \E g \in {None, "group_0"}, r \in References :
          req = Request("get_formula", <<>>, g, r, FALSE)
    /\ pc = "get_formula"
    /\ subset = NoTable
    /\ numeric = NoTable
    /\ cutdates = <<STEP_TIME_1, STEP_TIME_2>>
    /\ \E rows \in SeqsUpTo(LevelRows, MaxLevelRows) :
          df = Table(rows, "object", "numeric")
    /\ fourier \in {NoFourier, GivenFourier}
    /\ formula = <<>>
    /\ model = NoModel
    /\ fit_calls = 0
    /\ forest = NoForest
    /\ cf_df = NoTable /\ cf2_df = NoTable /\ shown = NoShown
    /\ error = NoException

FormulaNext == GetFormula

FormulaSpec == FormulaInit /\ [][FormulaNext]_vars


-----------------------------------------------------------------------------
(* get_model followed by plot_cf on a single series (plot_all_cf)          *)

MaxPlotRows == 4

PlotDates == {Date(2020, 2), Date(2020, 3), Date(2020, 4),
              Date(2021, 2), Date(2021, 3), Date(2021, 4)}

PlotRows == {RawRow(d, <<"a", "x">>, NaN, NaN, NaN, NaN) : d \in PlotDates}

PlotInit ==
    /\ \E rows \in SeqsUpTo(PlotRows, MaxPlotRows) :
          measure_table = Table(rows, "numeric", "numeric")
    /\ req = Request("plot_cf", <<"a", "x">>, None, None, FALSE)
    /\ pc = "subset_table"
    /\ subset = NoTable
    /\ numeric = NoTable
    /\ cutdates = <<STEP_TIME_1, STEP_TIME_2>>
    /\ df = NoTable
    /\ fourier = NoFourier
    /\ formula = <<>>
    /\ model = NoModel
    /\ fit_calls = 0
    /\ forest = NoForest
    /\ cf_df = NoTable /\ cf2_df = NoTable /\ shown = NoShown
    /\ error = NoException

PlotNext ==
    \/ SubsetTable
    \/ CoerceNumeric
    \/ Flatten
    \/ Relabel
    \/ GetItsVariables
    \/ GetFourier
    \/ GetFormula
    \/ GetRegression
    \/ PlotCf

PlotSpec == PlotInit /\ [][PlotNext]_vars

-----------------------------------------------------------------------------
(* pcnt_change on a series broken down by a text-valued group (forest_any) *)

MaxForestRows == 3

ForestLabels == {"A", "B", "1.5", "(1,5]"}

ForestRows == {RawRow(d, <<"a", "x">>, g, "x", NaN, NaN) :
                  d \in {STEP_TIME_1, STEP_TIME_2}, g \in ForestLabels}

ForestInit ==
    /\ \E rows \in SeqsUpTo(ForestRows, MaxForestRows) :
          measure_table = Table(rows, "object", "numeric")
    /\ \E r \in ForestLabels :
          req = Request("pcnt_change", <<"a", "x">>, "group_0", r, FALSE)
    /\ pc = "subset_table"
    /\ subset = NoTable
    /\ numeric = NoTable
    /\ cutdates = <<STEP_TIME_1, STEP_TIME_2>>
    /\ df = NoTable
    /\ fourier = NoFourier
    /\ formula = <<>>
    /\ model = NoModel
    /\ fit_calls = 0
    /\ forest = NoForest
    /\ cf_df = NoTable /\ cf2_df = NoTable /\ shown = NoShown
    /\ error = NoException

ForestNext ==
    \/ SubsetTable
    \/ CoerceNumeric
    \/ Flatten
    \/ Relabel
    \/ GetItsVariables
    \/ GetFourier
    \/ GetFormula
    \/ GetRegression
    \/ PcntChange

ForestSpec == ForestInit /\ [][ForestNext]_vars

-----------------------------------------------------------------------------
(* get_model on a file of several series, each broken down by a group      *)

MaxPanelRows == 3

PanelRows == {RawRow(d, n, g, "x", NaN, NaN) :
                 d \in {STEP_TIME_1, STEP_TIME_2}, n \in Names, g \in {"A", "B"}}

PanelInit ==
    /\ \E rows \in SeqsUpTo(PanelRows, MaxPanelRows) :
          measure_table = Table(rows, "object", "numeric")
    /\ \E p \in {<<"a", "x">>, <<"a", "*">>},
          gr \in {<<None, None>>, <<"group_0", "A">>} :
          req = Request("get_model", p, gr[1], gr[2], FALSE)
    /\ pc = "subset_table"
    /\ subset = NoTable
    /\ numeric = NoTable
    /\ cutdates = <<STEP_TIME_1, STEP_TIME_2>>
    /\ df = NoTable
    /\ fourier = NoFourier
    /\ formula = <<>>
    /\ model = NoModel
    /\ fit_calls = 0
    /\ forest = NoForest
    /\ cf_df = NoTable /\ cf2_df = NoTable /\ shown = NoShown
    /\ error = NoException

PanelNext ==
    \/ SubsetTable
    \/ CoerceNumeric
    \/ Flatten
    \/ Relabel
    \/ GetItsVariables
    \/ GetFourier
    \/ GetFormula
    \/ GetRegression

PanelSpec == PanelInit /\ [][PanelNext]_vars

-----------------------------------------------------------------------------
(* Properties of get_its_variables                                         *)

\* df holds a table returned by get_its_variables
ItsReturned == "time" \in df.cols

\* the cutoff month index of the k-th cutoff date, read off the returned
\* table: the time of a row dated cutdates[k], minus 1
CutIndex(k) ==
    LET i == CHOOSE j \in DOMAIN df.rows : df.rows[j].date = cutdates[k]
    IN df.rows[i].time - 1

TimesWhere(c) == {df.rows[i].time : i \in {j \in DOMAIN df.rows : df.rows[j][c] = 1}}

\* C1: in every returned table step and step2 are 0 or 1, are 1 exactly on
\* the rows whose time exceeds the cutoff month index of cut1 (cut2), and
\* never fall from 1 to 0 as time increases.
C1_StepFollowsCutoff ==
    ItsReturned =>
        LET rows == df.rows
            c1 == CutIndex(1)
            c2 == CutIndex(2)
        IN /\ \A i \in DOMAIN rows :
                /\ rows[i].step \in {0, 1}
                /\ rows[i].step = 1 <=> rows[i].time > c1
                /\ rows[i].step2 \in {0, 1}
                /\ rows[i].step2 = 1 <=> rows[i].time > c2
           /\ \A i, j \in DOMAIN rows :
                rows[i].time <= rows[j].time =>
                    /\ rows[i].step <= rows[j].step
                    /\ rows[i].step2 <= rows[j].step2

C1_Witness ==
    /\ ItsReturned
    /\ cutdates[1] # cutdates[2]
    /\ \E i, j \in DOMAIN df.rows :
          /\ df.rows[i].step = 0 /\ df.rows[j].step = 1
          /\ df.rows[i].time = CutIndex(1)
    /\ \E i, j \in DOMAIN df.rows : df.rows[i].step2 = 0 /\ df.rows[j].step2 = 1

\* C2: in every returned table slope = max(time - c1, 0) and
\* slope2 = max(time - c2, 0): the ramp is 0 up to the cutoff month index
\* and one higher on a row one month later.
C2_SlopeIsClippedRamp ==
    ItsReturned =>
        LET rows == df.rows
            c1 == CutIndex(1)
            c2 == CutIndex(2)
        IN /\ \A i \in DOMAIN rows :
                /\ rows[i].slope = Max2(rows[i].time - c1, 0)
                /\ rows[i].slope2 = Max2(rows[i].time - c2, 0)
                /\ rows[i].time <= c1 => rows[i].slope = 0
                /\ rows[i].time <= c2 => rows[i].slope2 = 0
           /\ \A i, j \in DOMAIN rows :
                rows[j].time = rows[i].time + 1 =>
                    /\ rows[i].time >= c1 => rows[j].slope = rows[i].slope + 1
                    /\ rows[i].time >= c2 => rows[j].slope2 = rows[i].slope2 + 1

C2_Witness ==
    /\ ItsReturned
    /\ \E i, j, k \in DOMAIN df.rows :
          /\ df.rows[i].time < CutIndex(1) /\ df.rows[i].slope = 0
          /\ df.rows[j].slope = 1
          /\ df.rows[k].slope = 2
    /\ \E i \in DOMAIN df.rows : df.rows[i].slope2 = 2

\* C3 as stated: in every returned table mar20 is 1 for exactly one time
\* value, c1 + 1, and april20 is 1 for exactly one time value, c1 + 2
\* (taken here only for cutoff dates cut1 < cut2, which both occur).
C3_OneMonthEach ==
    (ItsReturned /\ cutdates[1] < cutdates[2]) =>
        /\ TimesWhere("mar20") = {CutIndex(1) + 1}
        /\ TimesWhere("april20") = {CutIndex(1) + 2}

\* C3 amended: mar20 is 1 exactly on the rows with time = c1 + 1, and there
\* is such a row; april20 is 1 exactly on the rows with time = c1 + 2, which
\* is one time value when the table has a row for the month after cut1 and
\* none otherwise; both are 0 on every other row.
C3_DummiesMarkTheirMonth ==
    ItsReturned =>
        LET rows == df.rows
            c1 == CutIndex(1)
        IN /\ \A i \in DOMAIN rows :
                /\ rows[i].mar20 = (IF rows[i].time = c1 + 1 THEN 1 ELSE 0)
                /\ rows[i].april20 = (IF rows[i].time = c1 + 2 THEN 1 ELSE 0)
           /\ TimesWhere("mar20") = {c1 + 1}
           /\ TimesWhere("april20") =
                 IF \E i \in DOMAIN rows : rows[i].date = cutdates[1] + 1
                 THEN {c1 + 2} ELSE {}

C3_Witness ==
    /\ ItsReturned
    /\ \E i, j, k \in DOMAIN df.rows :
          /\ df.rows[i].mar20 = 1 /\ df.rows[i].april20 = 0
          /\ df.rows[j].april20 = 1 /\ df.rows[j].mar20 = 0
          /\ df.rows[k].mar20 = 0 /\ df.rows[k].april20 = 0

\* C4: in every returned table time counts the months from January of the
\* first observed year, January being 1; in a gap-free series ordered by
\* date it rises by exactly 1 from each row to the next.
C4_TimeCountsMonths ==
    ItsReturned =>
        LET rows == df.rows
            first_year == Min({Year(rows[i].date) : i \in DOMAIN rows})
        IN /\ \A i \in DOMAIN rows :
                /\ rows[i].time = (rows[i].date - Date(first_year, 1)) + 1
                /\ rows[i].date = Date(first_year, 1) => rows[i].time = 1
           /\ (\A i \in 1..(Len(rows) - 1) : rows[i + 1].date = rows[i].date + 1)
                => \A i \in 1..(Len(rows) - 1) : rows[i + 1].time = rows[i].time + 1

C4_Witness ==
    /\ ItsReturned
    /\ Len(df.rows) >= 3
    /\ \A i \in 1..(Len(df.rows) - 1) : df.rows[i + 1].date = df.rows[i].date + 1
    /\ Year(df.rows[1].date) < Year(df.rows[Len(df.rows)].date)
    /\ df.rows[1].time = 12


-----------------------------------------------------------------------------
(* Properties of a get_model / pcnt_change request                         *)

Stages == <<"subset_table", "coerce_numeric", "flatten", "relabel",
            "get_its_variables", "get_fourier", "get_formula",
            "get_regression", "pcnt_change", "plot_cf", "done">>

StageNo(p) == CHOOSE i \in DOMAIN Stages : Stages[i] = p

\* the call has gone through stage p: it is at a later stage, or it has
\* raised at p or later
Passed(p) ==
    IF pc = "raised" THEN StageNo(error.at) >= StageNo(p)
    ELSE StageNo(pc) > StageNo(p)

RaisedAt(p, e) == pc = "raised" /\ error = [type |-> e, at |-> p]

NothingFitted == fit_calls = 0 /\ model = NoModel /\ forest = NoForest

\* a cutoff date has no row in the table passed to get_its_variables
CutoffAbsent ==
    \E k \in {1, 2} : \A i \in DOMAIN numeric.rows : numeric.rows[i].date # cutdates[k]

\* C5 as stated: when a cutoff date has no row in the series passed to
\* get_its_variables the call fails with a lookup error (IndexError), no
\* table is returned and no model is fitted.
C5_LookupError ==
    (Passed("get_its_variables") /\ CutoffAbsent) =>
        /\ RaisedAt("get_its_variables", "IndexError")
        /\ df = NoTable
        /\ NothingFitted

\* C5 amended: when a cutoff date has no row in the series passed to
\* get_its_variables the call fails - with IndexError (a lookup error) when
\* the series has rows, with ValueError (min() of no years) when it has
\* none; no cutoff index is defaulted, no table is returned and no model
\* is fitted.
C5_CutoffAbsentFails ==
    (Passed("get_its_variables") /\ CutoffAbsent) =>
        /\ RaisedAt("get_its_variables",
                    IF numeric.rows = <<>> THEN "ValueError" ELSE "IndexError")
        /\ df = NoTable
        /\ NothingFitted

C5_Witness ==
    /\ RaisedAt("get_its_variables", "IndexError")
    /\ req.entry = "get_model"
    /\ \E i \in DOMAIN numeric.rows : numeric.rows[i].date = STEP_TIME_1
    /\ \A i \in DOMAIN numeric.rows : numeric.rows[i].date # STEP_TIME_2

\* the pattern matches no value of the name column
NoNameMatches ==
    \A i \in DOMAIN measure_table.rows :
        ~fnmatch(measure_table.rows[i].name, req.pattern)

\* C6: when the pattern matches no name, subset_table raises ValueError and
\* the request (get_model or pcnt_change) ends there: nothing is coerced,
\* derived or fitted and nothing is returned.
C6_NoMatchFailsFast ==
    (pc # "subset_table" /\ NoNameMatches) =>
        /\ RaisedAt("subset_table", "ValueError")
        /\ subset = NoTable /\ numeric = NoTable /\ df = NoTable
        /\ fourier = NoFourier /\ formula = <<>>
        /\ NothingFitted

C6_Witness ==
    /\ RaisedAt("subset_table", "ValueError")
    /\ req.entry = "pcnt_change"
    /\ Len(measure_table.rows) >= 2
    /\ \E i \in DOMAIN measure_table.rows : measure_table.rows[i].date = STEP_TIME_1
    /\ \E i \in DOMAIN measure_table.rows : measure_table.rows[i].date = STEP_TIME_2

\* the levels observed in the grouping column of the table to be modelled
ObservedLevels == Range(Column(df, req.interaction_group))

\* C7: with an interaction group whose column has exactly one observed
\* level the request fails before the fitter is invoked: the fitter is
\* only ever invoked on a table with at least two levels.
C7_SingleLevelNeverFitted ==
    (req.interaction_group # None /\ fit_calls > 0) =>
        Cardinality(ObservedLevels) >= 2

\* the reference level is one of the values of the grouping column, as
\* get_model hands it on (numeric, after the relabeling of flags)
ReferenceObserved ==
    /\ req.reference # None
    /\ numeric.dtype[req.interaction_group] = "object"
    /\ \E i \in DOMAIN numeric.rows :
          numeric.rows[i][req.interaction_group] = req.reference

\* C8: with an interaction group whose reference level is not among the
\* observed values of the grouping column (after any relabeling of flags),
\* get_formula raises ValueError: no formula is returned, no model fitted.
C8_MissingReferenceRaises ==
    (req.interaction_group # None /\ Passed("get_formula") /\ ~ReferenceObserved) =>
        /\ RaisedAt("get_formula", "ValueError")
        /\ formula = <<>>
        /\ NothingFitted

C8_Witness ==
    /\ RaisedAt("get_formula", "ValueError")
    /\ req.reference = "Recorded x"
    /\ \E i \in DOMAIN numeric.rows : numeric.rows[i].group_0 = "Recored x"
    /\ \E i \in DOMAIN numeric.rows : numeric.rows[i].group_0 = "No recorded x"

-----------------------------------------------------------------------------
(* Properties of get_formula                                               *)

\* get_formula has returned a formula
FormulaReturned == formula # <<>>

FirstPos(s, x) == Min({i \in DOMAIN s : s[i] = x})

\* C9: when get_formula succeeds with an interaction group, the category
\* order of the grouping column is a permutation of the observed levels
\* with the reference level first and the other levels in the order of
\* their first appearance.
C9_ReferenceFirstOthersInOrder ==
    (FormulaReturned /\ req.interaction_group # None) =>
        LET g == req.interaction_group
            cats == df.categories[g]
            col == Column(df, g)
        IN /\ Range(cats) = Range(col)
           /\ Len(cats) = Cardinality(Range(col))
           /\ cats[1] = req.reference
           /\ \A a, b \in Range(col) \ {req.reference} :
                 FirstPos(col, a) < FirstPos(col, b)
                    => FirstPos(cats, a) < FirstPos(cats, b)

C9_Witness ==
    /\ FormulaReturned
    /\ req.interaction_group = "group_0"
    /\ Len(df.categories["group_0"]) = 3
    /\ FirstPos(Column(df, "group_0"), req.reference) = 3
    /\ df.rows[1].group_0 = "B"
    /\ df.rows[2].group_0 = "A"
    /\ df.categories["group_0"] = <<"C", "B", "A">>

\* C10: the formula always starts with time, step, slope, mar20, april20,
\* step2, slope2, in that order and uninteracted; with an interaction group
\* exactly step, slope, step2 and slope2 are interacted with the grouping
\* column, without one nothing is; s1 and c1, when requested, are the last
\* terms and are not interacted.
C10_FormulaTerms ==
    FormulaReturned =>
        LET g == req.interaction_group
            n == Len(formula)
        IN /\ SubSeq(formula, 1, 7) =
                 <<Term("time"), Term("step"), Term("slope"), Term("mar20"),
                   Term("april20"), Term("step2"), Term("slope2")>>
           /\ {formula[i].var : i \in {j \in DOMAIN formula : formula[j].by # None}}
                 = IF g = None THEN {} ELSE {"step", "slope", "step2", "slope2"}
           /\ \A i \in DOMAIN formula : formula[i].by \in {None, g}
           /\ IF fourier.given
              THEN /\ formula[n - 1] = Term("s1")
                   /\ formula[n] = Term("c1")
                   /\ \A i \in 1..(n - 2) : formula[i].var \notin {"s1", "c1"}
              ELSE \A i \in DOMAIN formula : formula[i].var \notin {"s1", "c1"}
           /\ n = 7 + (IF g = None THEN 0 ELSE 4) + (IF fourier.given THEN 2 ELSE 0)

C10_Witness ==
    /\ FormulaReturned
    /\ req.interaction_group = "group_0"
    /\ fourier.given
    /\ Len(formula) = 13
    /\ formula[8] = Star("step", "group_0")


-----------------------------------------------------------------------------
(* Properties of the relabeling of flags                                   *)

\* the rows get_model works on when the flags are looked at, without
\* convert_flat: subset less the incomplete month, row for row
BeforeRelabel == DropIncompleteMonth(subset).rows

\* the grouping column of the request holds only the flag values 0 and 1
HoldsFlags ==
    /\ req.interaction_group # None
    /\ subset.dtype[req.interaction_group] \in {"object", "numeric"}
    /\ BeforeRelabel # <<>>
    /\ \A i \in DOMAIN BeforeRelabel :
          BeforeRelabel[i][req.interaction_group] \in {"0", "1"}

\* C11: when the grouping column holds only 0/1 flags (numeric, or strings
\* that read as integers), then once get_model has passed the relabeling
\* step every row whose flag was 1 has the level "Recorded {category}" and
\* every row whose flag was 0 the level "No recorded {category}", the
\* category being the row's value in the paired category column.
C11_FlagsRelabelled ==
    (HoldsFlags /\ ~req.convert_flat /\ Passed("relabel")) =>
        LET g == req.interaction_group
        IN /\ Len(numeric.rows) = Len(BeforeRelabel)
           /\ \A i \in DOMAIN BeforeRelabel :
                 numeric.rows[i][g] =
                    IF BeforeRelabel[i][g] = "1"
                    THEN "Recorded " \o BeforeRelabel[i][CategoryOf(g)]
                    ELSE "No recorded " \o BeforeRelabel[i][CategoryOf(g)]


-----------------------------------------------------------------------------
(* Properties of get_regression                                            *)

\* C12: a model is returned by get_regression only when the optimizer
\* reported convergence, with or without an interaction group: once the
\* fitter has been invoked, either get_regression has raised and no model or
\* forest table exists, or the model held by get_model (and read by
\* pcnt_change) is a converged fit.
C12_OnlyConvergedReturned ==
    /\ model.fitted => model.converged
    /\ fit_calls > 0 =>
          \/ /\ pc = "raised" /\ error.at = "get_regression"
             /\ model = NoModel /\ forest = NoForest
          \/ model.fitted /\ model.converged
    /\ forest.made => model.converged

C12_Witness ==
    /\ RaisedAt("get_regression", "ConvergenceWarning")
    /\ req.interaction_group # None
    /\ req.entry = "pcnt_change"
    /\ fit_calls = 1
    /\ model = NoModel


-----------------------------------------------------------------------------
(* Properties of coerce_numeric                                            *)

\* the number a raw cell spells, as a coerced cell; missing when it spells none
Spelt(cell) ==
    CASE cell = "0" -> {0} [] cell = "1" -> {1} [] cell = "2" -> {2}
      [] cell = "3" -> {3} [] OTHER -> {}

\* C13: right after coerce_numeric the table has every row it was given
\* (less the incomplete month dropped on line 177), in order; in each row a
\* numerator, denominator or value that spells no number is missing - not
\* 0 - in that field only, one that spells a number is that number, date
\* and name are untouched; and the rate get_its_variables derives is
\* missing exactly where the value is missing, 1000 * value elsewhere.
C13_CoercionKeepsRows ==
    /\ pc = "flatten" =>
          /\ Len(numeric.rows) = Len(BeforeRelabel)
          /\ \A i \in DOMAIN BeforeRelabel :
                /\ \A c \in NumericCols :
                      numeric.rows[i][c] = Spelt(BeforeRelabel[i][c])
                /\ \A c \in {"date", "name"} \cup TextCols :
                      numeric.rows[i][c] = BeforeRelabel[i][c]
    /\ (ItsReturned /\ req.entry # "get_its_variables" /\ ~req.convert_flat) =>
          /\ Len(df.rows) = Len(BeforeRelabel)
          /\ \A i \in DOMAIN BeforeRelabel :
                /\ df.rows[i].value = Spelt(BeforeRelabel[i].value)
                /\ df.rows[i].rate = {1000 * v : v \in Spelt(BeforeRelabel[i].value)}
                /\ Spelt(BeforeRelabel[i].value) = {} => df.rows[i].rate = {}

C13_Witness ==
    /\ ItsReturned
    /\ Len(df.rows) = 2
    /\ measure_table.rows[1].value = Redacted
    /\ measure_table.rows[1].numerator = "2"
    /\ df.rows[1].rate = {} /\ df.rows[1].numerator = {2}
    /\ df.rows[2].rate = {0}


-----------------------------------------------------------------------------
(* Properties of plot_cf                                                   *)

\* plot_cf has built its two counterfactual tables
CfBuilt == cf_df # NoTable

\* table t is the table o with exactly the columns zeros set to 0
ZeroedExactly(t, o, zeros) ==
    /\ t.cols = o.cols
    /\ Len(t.rows) = Len(o.rows)
    /\ \A i \in DOMAIN o.rows :
          /\ DOMAIN t.rows[i] = DOMAIN o.rows[i]
          /\ \A k \in DOMAIN o.rows[i] :
                t.rows[i][k] = IF k \in zeros THEN 0 ELSE o.rows[i][k]

CfTablesZeroed ==
    CfBuilt =>
        /\ ZeroedExactly(cf_df, SetIndexDate(df),
                         {"slope", "step", "mar20", "april20", "slope2", "step2"})
        /\ ZeroedExactly(cf2_df, SetIndexDate(df), {"slope2", "step2"})

\* C14: the no-intervention table is the regressor table (indexed by date)
\* with exactly slope, step, mar20, april20, slope2 and step2 set to 0, the
\* no-second-intervention table the same with exactly slope2 and step2 set
\* to 0, every other column of both as in the regressor table; and plot_cf
\* leaves the regressor table it was given as it was.
C14_CounterfactualTables ==
    /\ []CfTablesZeroed
    /\ [][pc = "plot_cf" => df' = df]_vars

C14_Witness ==
    /\ CfBuilt
    /\ \E i \in DOMAIN df.rows :
          /\ df.rows[i].slope = 2 /\ df.rows[i].slope2 = 0 /\ df.rows[i].april20 = 1
          /\ cf_df.rows[i].slope = 0 /\ cf_df.rows[i].april20 = 0
          /\ cf2_df.rows[i].slope = 2 /\ cf2_df.rows[i].april20 = 1
    /\ \E i \in DOMAIN df.rows :
          /\ df.rows[i].slope2 = 2
          /\ cf_df.rows[i].slope2 = 0 /\ cf2_df.rows[i].slope2 = 0
          /\ cf2_df.rows[i].step = 1 /\ cf2_df.rows[i].time = df.rows[i].time


\* the rows of the regressor table dated before the k-th cutoff date
RowsBefore(k) == {i \in DOMAIN df.rows : df.rows[i].date < cutdates[k]}

-----------------------------------------------------------------------------
(* Properties of pcnt_change                                               *)

\* pcnt_change has got a model from get_model and has ended
ForestEnded ==
    /\ req.entry = "pcnt_change" /\ req.interaction_group # None
    /\ model.fitted
    /\ pc = "done" \/ (pc = "raised" /\ error.at = "pcnt_change")

\* the levels of the grouping column other than the reference
OtherLevels == Range(Tail(df.categories[req.interaction_group]))

IndexTuples == {[change |-> forest.rows[i].change, group |-> forest.rows[i].group] :
                   i \in DOMAIN forest.rows}

\* C16 as stated: pcnt_change returns a row for each cross term of a term
\* and a level and for nothing else, keyed by the term's name and the
\* level's label, whatever the label.
C16_CrossTermKeys ==
    ForestEnded =>
        /\ forest.made
        /\ IndexTuples =
              {[change |-> <<v>>, group |-> Spell(l)] :
                  v \in {"step", "slope", "step2", "slope2"}, l \in OtherLevels}

\* the label as pcnt_change reports it: without any "]" at its end
Reported(l) == CASE l = "(1,5]" -> <<"(1,5">> [] OTHER -> Spell(l)

\* C16 amended: pcnt_change keeps the rows whose name holds a level of the
\* grouping column: the cross terms, keyed (term, level), and the levels'
\* own rows, keyed ("baseline", level); the level is the label less any "]"
\* at its end, so the label itself unless it ends in "]"; and when the
\* label of a level other than the reference holds a "." pcnt_change raises
\* ValueError and returns nothing.
C16_LevelRowKeys ==
    ForestEnded =>
        IF \E l \in OtherLevels : "." \in Range(Spell(l))
        THEN RaisedAt("pcnt_change", "ValueError") /\ forest = NoForest
        ELSE /\ forest.made
             /\ Len(forest.rows) = 5 * Cardinality(OtherLevels)
             /\ IndexTuples =
                   {[change |-> <<v>>, group |-> Reported(l)] :
                       v \in {"baseline", "step", "slope", "step2", "slope2"},
                       l \in OtherLevels}

C16_Witness ==
    /\ ForestEnded /\ forest.made
    /\ OtherLevels = {"B", "(1,5]"}
    /\ [change |-> <<"baseline">>, group |-> <<"B">>] \in IndexTuples
    /\ [change |-> <<"slope2">>, group |-> <<"(1,5">>] \in IndexTuples
    /\ \E i \in DOMAIN forest.rows :
          forest.rows[i].name = <<"step", ":", "group_0", "[", "T", ".", "B", "]">>


-----------------------------------------------------------------------------
(* Properties of flatten                                                   *)

\* the table get_model has when it comes to line 178
BeforeFlatten == DropIncompleteMonth(coerce_numeric(subset))

\* column g of that table holds only the flag values 0 and 1
OnlyFlags(g) ==
    /\ BeforeFlatten.dtype[g] \in {"object", "numeric"}
    /\ BeforeFlatten.rows # <<>>
    /\ \A i \in DOMAIN BeforeFlatten.rows : BeforeFlatten.rows[i][g] \in {"0", "1"}

OneCategory(c) == Cardinality(Range(Column(BeforeFlatten, c))) = 1

\* what tells a row from another, the grouping columns apart
Rest(r) == <<r.date, r.name, r.value, r.category_0, r.group_1, r.category_1>>
Rests(rows) == [i \in DOMAIN rows |-> Rest(rows[i])]

\* the rows after line 179 are those of before it, or those of them whose
\* flag in column g is 1
KeepsAllRows == Rests(numeric.rows) = Rests(BeforeFlatten.rows)
KeepsTrueRows(g) ==
    Rests(numeric.rows) = Rests(SelectSeq(BeforeFlatten.rows, LAMBDA r : r[g] = "1"))

\* C17 as stated: with convert_flat, when the grouping column of the request
\* holds only 0/1 flags and its category column has one distinct value,
\* only the rows whose flag is 1 go on; in every other case all rows do.
C17_FlattenOnRequestColumn ==
    (pc = "relabel" /\ req.convert_flat /\ req.interaction_group # None) =>
        LET g == req.interaction_group
        IN IF OnlyFlags(g) /\ OneCategory(CategoryOf(g))
           THEN KeepsTrueRows(g)
           ELSE KeepsAllRows

\* C17 amended: with convert_flat, when column group_0 - whatever the
\* grouping column of the request is - holds only 0/1 flags and category_0
\* has one distinct value, only the rows whose group_0 flag is 1 go on; in
\* every other case in which flatten returns, and without convert_flat,
\* all rows go on.
C17_FlattenOnFirstColumn ==
    pc = "relabel" =>
        IF req.convert_flat /\ OnlyFlags("group_0") /\ OneCategory("category_0")
        THEN KeepsTrueRows("group_0")
        ELSE KeepsAllRows

C17_Witness ==
    /\ pc = "relabel" /\ req.convert_flat
    /\ req.interaction_group = "group_1"
    /\ Len(BeforeFlatten.rows) = 2 /\ Len(numeric.rows) = 1
    /\ BeforeFlatten.rows[1].group_0 = "0"
    /\ numeric.rows[1].group_0 = "True"

\* with two categories the flags are kept, all of them
C17_WitnessOtherCase ==
    /\ pc = "relabel" /\ req.convert_flat
    /\ OnlyFlags("group_0") /\ ~OneCategory("category_0")
    /\ Len(numeric.rows) = 2
    /\ numeric.rows[1].group_0 = "False"


-----------------------------------------------------------------------------
(* Properties of the table passed to the fitter                            *)

\* C18: in the table get_model has passed to the fitter no two rows have
\* the same time and the same level of the interaction group (without an
\* interaction group: the same time).
C18_OneRowPerTimeAndGroup ==
    fit_calls > 0 =>
        \A i, j \in DOMAIN df.rows :
            (i # j /\ df.rows[i].time = df.rows[j].time) =>
                /\ req.interaction_group # None
                /\ df.rows[i][req.interaction_group] # df.rows[j][req.interaction_group]

\* C20: in the table get_model has passed to the fitter two rows whose time
\* values are equal or differ by a multiple of 12 have the same s1 and the
\* same c1.
C20_HarmonicsFollowTime ==
    fit_calls > 0 =>
        \A i, j \in DOMAIN df.rows :
            (df.rows[i].time - df.rows[j].time) % 12 = 0 =>
                /\ df.rows[i].s1 = df.rows[j].s1
                /\ df.rows[i].c1 = df.rows[j].c1


-----------------------------------------------------------------------------
(* Properties of get_ci_df                                                 *)

\* 100 * (exp(k ln 2) - 1) for the values of k the estimates take
PercentOf(k) ==
    CASE k = -2 -> -75 [] k = -1 -> -50 [] k = 0 -> 0 [] k = 1 -> 100 [] k = 2 -> 300

\* C19: in every row that comes from get_ci_df, coef, lci and uci are the
\* log-scale values mapped through 100 * (exp(x) - 1), and error is the
\* log-scale coef minus the log-scale lower bound (compared in thousandths,
\* 1000 * ln 2 being 693).
C19_PercentScaleAndLogError ==
    forest.made =>
        \A i \in DOMAIN forest.rows :
            /\ forest.rows[i].coef = PercentOf(model.estimate.coef)
            /\ forest.rows[i].lci = PercentOf(model.estimate.lci)
            /\ forest.rows[i].uci = PercentOf(model.estimate.uci)
            /\ 1000 * forest.rows[i].error =
                  693 * (model.estimate.coef - model.estimate.lci)


-----------------------------------------------------------------------------
(* Properties of a request as a whole                                      *)

\* C21: no step of a get_model or pcnt_change request, whether the request
\* returns or raises, changes the loaded measure_table: its rows, their
\* values and the column types stay as they were.
C21_LoadedTableUnchanged ==
    [][/\ measure_table'.dtype = measure_table.dtype
       /\ measure_table'.cols = measure_table.cols
       /\ measure_table' = measure_table]_vars

C21_Witness ==
    /\ pc = "done" /\ req.entry = "pcnt_change"
    /\ req.interaction_group = "group_0"
    /\ measure_table.dtype["group_0"] = "object"
    /\ df.dtype["group_0"] = "category"
    /\ measure_table.rows[1].group_0 = "1"
    /\ df.rows[1].group_0 = "Recored x"
    /\ measure_table.rows[1].value = "1"
    /\ df.rows[1].value = {1}
    /\ "time" \notin measure_table.cols


\* the request has failed before the fitting stage
FailedEarlier == pc = "raised" /\ StageNo(error.at) < StageNo("get_regression")

\* C22: within a request the fitter is invoked at most once, and only by
\* the fitting stage; a request that fails at an earlier stage (no name
\* matches the pattern, a cutoff date or the reference level is absent)
\* never invokes it; and once a stage has raised - the fit included, failed
\* or unconverged - the request takes no further step: nothing is retried.
C22_FitAtMostOnceNoRetry ==
    /\ [](/\ fit_calls <= 1
          /\ FailedEarlier => fit_calls = 0
          /\ (pc = "raised" /\ error.at = "get_regression") =>
                fit_calls = 1 /\ model = NoModel)
    /\ [][/\ pc # "raised"
          /\ fit_calls' # fit_calls =>
                (pc = "get_regression" /\ fit_calls = 0 /\ fit_calls' = 1)]_vars

C22_Witness ==
    /\ RaisedAt("get_regression", "ConvergenceWarning")
    /\ fit_calls = 1
    /\ req.entry = "get_model"
    /\ req.interaction_group = None

\* a request that failed for an absent reference level, the fitter not invoked
C22_WitnessEarlier ==
    /\ RaisedAt("get_formula", "ValueError")
    /\ fit_calls = 0


-----------------------------------------------------------------------------
(* Properties relating the ramps and the steps                             *)

\* the rows on which column c is not 0
RowsOn(c) == {i \in DOMAIN df.rows : df.rows[i][c] # 0}

\* ramp and step go together: the ramp is positive exactly on the rows of
\* the step, and on the rows of the first month of the step it is 1, its
\* least value but 0
RampMatchesStep(ramp, step) ==
    /\ \A i \in DOMAIN df.rows : df.rows[i][ramp] > 0 <=> df.rows[i][step] = 1
    /\ RowsOn(step) # {} =>
          LET first == Min({df.rows[i].time : i \in RowsOn(step)})
          IN /\ \A i \in RowsOn(step) :
                   df.rows[i].time = first => df.rows[i][ramp] = 1
             /\ Min({df.rows[i][ramp] : i \in RowsOn(ramp)}) = 1

\* C23: on every row of a table returned by get_its_variables slope > 0
\* exactly when step = 1 and slope2 > 0 exactly when step2 = 1, and the
\* first non-zero value of each ramp is 1, in the first month of its step.
C23_RampMatchesStep ==
    ItsReturned => RampMatchesStep("slope", "step") /\ RampMatchesStep("slope2", "step2")

C23_Witness ==
    /\ ItsReturned
    /\ Len(df.rows) = 4
    /\ df.rows[1].step = 0 /\ df.rows[1].slope = 0
    /\ df.rows[2].step = 1 /\ df.rows[2].slope = 1 /\ df.rows[2].step2 = 0
    /\ df.rows[3].slope = 2 /\ df.rows[3].step2 = 1 /\ df.rows[3].slope2 = 1
    /\ df.rows[4].slope2 = 2


\* C24: when cut1 is before cut2 and both dates occur in the table, on every
\* row of the returned table step2 <= step and slope2 <= slope, and on every
\* row with step2 = 1 the two ramps differ by c2 - c1, the difference of the
\* two cutoff month indices.
C24_SecondWithinFirst ==
    (ItsReturned /\ cutdates[1] < cutdates[2]) =>
        /\ CutIndex(1) < CutIndex(2)
        /\ \A i \in DOMAIN df.rows :
              /\ df.rows[i].step2 <= df.rows[i].step
              /\ df.rows[i].slope2 <= df.rows[i].slope
              /\ df.rows[i].step2 = 1 =>
                    df.rows[i].slope - df.rows[i].slope2 = CutIndex(2) - CutIndex(1)

C24_Witness ==
    /\ ItsReturned
    /\ cutdates = <<Date(2019, 12), Date(2020, 2)>>
    /\ \E i \in DOMAIN df.rows :
          /\ df.rows[i].date = Date(2020, 1)
          /\ df.rows[i].step = 1 /\ df.rows[i].step2 = 0
          /\ df.rows[i].slope = 2 /\ df.rows[i].slope2 = 0
    /\ \E i \in DOMAIN df.rows :
          /\ df.rows[i].date = Date(2020, 3)
          /\ df.rows[i].step2 = 1
          /\ df.rows[i].slope = 4 /\ df.rows[i].slope2 = 2


====
